---- MODULE Spec2Model ----
(***************************************************************************)
(* CubeGridWithZoom.tsx: the state the effect of CubeGrid creates (its     *)
(* closure variables, the refs, the registered listeners), the input       *)
(* handlers, the animation loop animate() and the effect's cleanup.        *)
(*                                                                         *)
(* Units.  Times are whole milliseconds.  Layer angles are millidegrees    *)
(* (QuarterTurn = Math.PI / 2).  Distances of the zoom are tenths of a     *)
(* unit, so that delta * zoomSpeed (zoomSpeed = 0.1) is delta tenths.  The  *)
(* camera starts at the distance sqrt(108) units = 60 * sqrt(3) tenths,    *)
(* an irrational number: with f = 60 * sqrt(3) - 103, 0 < f < 1, a         *)
(* distance is the exact value [n, r, e] = (n + r * f) / 10^e tenths, and  *)
(* two distances are equal iff their records are.                          *)
(* Euler angles of the grid are milliradians.  The grid                    *)
(* orientation is the term of the operations applied to group.quaternion   *)
(* and group.rotation, oldest first: equal terms are equal orientations.   *)
(***************************************************************************)
EXTENDS Integers, Sequences, FiniteSets

\* ------------------------------------------------------------ bounds
\* Last frame timestamp of a run of the scheduler (SpecSched).
MaxTime == 16500
\* Last frame timestamp of a run with input or teardown.
MaxShortTime == 500
\* Operations kept in the orientation term.
MaxOrientOps == 3
\* Decimal places kept by the smoothed distance.
MaxZoomExp == 6
\* Last frame timestamp of a run of the zoom (SpecZoom).
MaxZoomTime == 1500
\* Calls of the cleanup function.
MaxCleanups == 2
\* Fingers on the screen.
MaxTouches == 2
\* Input events dispatched in a run.
MaxEvents == 4
\* Input events dispatched in a run of the zoom (SpecZoom).
MaxZoomEvents == 3
\* Intervals between two frames, in ms.
FrameSteps == {250, 500}
\* Pointer and finger positions (pairwise distances 5, 10, 5).
Points == {<<100, 100>>, <<103, 104>>, <<106, 108>>}
\* deltaY of a wheel event.
WheelDeltas == {-100, -30, 100}
\* event.touches of a touch event that holds neither one nor two touches.
OtherTouchLists == {<<>>, <<<<100, 100>>, <<103, 104>>, <<106, 108>>>>}
\* window.innerWidth, window.innerHeight
WindowSizes == {<<800, 600>>, <<1024, 768>>}
\* Runs of the effect after the first one, on the same component instance.
MaxRemounts == 1
\* Largest timestamp of a run with teardown and a fresh setup (SpecRemount).
MaxRemountTime == 4500
\* Input events dispatched in a run with teardown (SpecTeardown).
MaxTeardownEvents == 3

\* --------------------------------------------------- program constants
gridSize == 3
\* 0.01 rad and 0.005 rad, in milliradians
dragRotationSpeed == 10
wholeCubeRotationSpeed == 5
\* ms
rotationDuration == 1000
pauseDuration == 3000
\* Math.PI / 2, in millidegrees
QuarterTurn == 90000
\* 0.1 per unit of delta, 3 and 20, in tenths
zoomSpeed == 1
minZoom == 30
maxZoom == 200
\* The smoothing factor 0.1 is 1 / SmoothDen.
SmoothDen == 10
\* camera.position.set(6, 6, 6): the length is sqrt(108) units, that is
\* RootFactor * sqrt(3) tenths, between InitialWhole and InitialWhole + 1.
RootFactor == 60
InitialWhole == 103
ListenerNames ==
  {"mousedown", "mousemove", "mouseup", "wheel",
   "touchstart", "touchmove", "touchend", "resize"}

VARIABLES
  time,                  \* timestamp of the last frame
  rafPending,            \* a requestAnimationFrame callback is scheduled
  refsLive,              \* sceneRef, rendererRef, groupRef, cameraRef all set
  mountRef,              \* mountRef.current is the div
  canvasInMount,         \* renderer.domElement is a child of the div
  disposeCount,          \* calls of renderer.dispose()
  cleanupRuns,           \* calls of the cleanup function
  listeners,             \* event names with a registered listener
  hasError,              \* ErrorBoundary's state
  uncaught,              \* exceptions that left a handler uncaught
  frameResult,           \* what the last call of animate did
  isDragging,
  previousMousePosition,
  orientation,           \* group.quaternion / group.rotation
  isHovering,
  isRotating,
  currentRowIndex,
  rotationStartTime,
  rows,                  \* rowsRef.current[i].rotation.y
  settled,               \* row indices in the order their rotation completed
  targetZoom,
  currentZoom,
  previousTouchDistance,
  viewSize,              \* the size given to renderer.setSize and camera.aspect
  staleLoops,            \* the schedulers of the animate loops of earlier setups
  touches,               \* the fingers on the screen (event.touches)
  idle,                  \* frames since the last zoom(delta), and the gap
                         \* (n + r * f) / 10^e it left between target and
                         \* distance
  events,                \* input events dispatched so far
  lastOp,                \* the handler that ran last
  defaultPrevented       \* that handler called event.preventDefault()

vars ==
  <<time, rafPending, refsLive, mountRef, canvasInMount, disposeCount,
    cleanupRuns, listeners, hasError, uncaught, frameResult, isDragging,
    previousMousePosition, orientation, isHovering, isRotating,
    currentRowIndex, rotationStartTime, rows, settled, targetZoom,
    currentZoom, previousTouchDistance, viewSize, staleLoops, touches, idle,
    events, lastOp, defaultPrevented>>

lifeVars ==
  <<refsLive, mountRef, canvasInMount, disposeCount, cleanupRuns, listeners,
    hasError>>
dragVars == <<isDragging, previousMousePosition>>
schedVars == <<isRotating, currentRowIndex, rotationStartTime, rows, settled>>
zoomVars == <<targetZoom, currentZoom>>
frameVars == <<time, rafPending, frameResult, uncaught>>

\* ------------------------------------------------------------ helpers
Max(a, b) == IF a >= b THEN a ELSE b

RECURSIVE Pow(_, _)
Pow(b, k) == IF k = 0 THEN 1 ELSE b * Pow(b, k - 1)

\* Math.sqrt of a perfect square.  The touch points of the model lie on one
\* line of slope 4/3, so that every finger distance is a whole number; the
\* root of any other number is not defined here.
Sqrt(n) == CHOOSE r \in 0..n : r * r = n

\* Math.hypot
Hypot(dx, dy) == Sqrt(dx * dx + dy * dy)

\* ----------------------------------------------------- exact distances
\* The k-th partial quotient of the continued fraction of sqrt(3),
\* [1; 1, 2, 1, 2, ...].
Sqrt3Quotient(k) == IF k = 0 THEN 1 ELSE IF k % 2 = 1 THEN 1 ELSE 2

\* Whether p / q is below the k-th complete quotient of sqrt(3), for p, q > 0:
\* the comparison of the two continued fractions, exact as sqrt(3) is
\* irrational.
RECURSIVE BelowSqrt3(_, _, _)
BelowSqrt3(p, q, k) ==
  LET a == Sqrt3Quotient(k)
  IN  IF p \div q < a THEN TRUE
      ELSE IF p \div q > a THEN FALSE
      ELSE IF p % q = 0 THEN TRUE
      ELSE ~BelowSqrt3(q, p % q, k + 1)

\* The sign of n + r * f, with f = RootFactor * sqrt(3) - InitialWhole.
RECURSIVE Sign(_, _)
Sign(n, r) ==
  IF r = 0 THEN (IF n > 0 THEN 1 ELSE IF n < 0 THEN -1 ELSE 0)
  ELSE IF r < 0 THEN -Sign(-n, -r)
  ELSE IF n >= 0 THEN 1
  ELSE IF -n >= r THEN -1
  ELSE IF BelowSqrt3(InitialWhole * r - n, RootFactor * r, 0) THEN 1 ELSE -1

\* The whole number of tenths v.
Whole(v) == [n |-> v, r |-> 0, e |-> 0]

\* The distance a with e decimal places, e >= a.e.
Scaled(a, e) ==
  IF e = a.e THEN a
  ELSE LET up == Pow(10, e - a.e)
       IN  [n |-> a.n * up, r |-> a.r * up, e |-> e]

\* a - b, not reduced
Minus(a, b) ==
  LET e == Max(a.e, b.e)
      sa == Scaled(a, e)
      sb == Scaled(b, e)
  IN  [n |-> sa.n - sb.n, r |-> sa.r - sb.r, e |-> e]

\* a < b
Less(a, b) == LET d == Minus(a, b) IN Sign(d.n, d.r) < 0

\* Math.max, Math.min
MaxOf(a, b) == IF Less(a, b) THEN b ELSE a
MinOf(a, b) == IF Less(b, a) THEN b ELSE a

\* camera.position.length()
CameraDistance == [n |-> InitialWhole, r |-> 1, e |-> 0]

\* ------------------------------------------------ orientation of the grid
\* new THREE.Quaternion().setFromEuler(new THREE.Euler(dy * s, dx * s, 0, 'XYZ'))
\* Mutation: the pointer's horizontal travel turns about x, the vertical about y.
DeltaRotation_Swapped(dx, dy) ==
  [op |-> "premultiply", x |-> dx * dragRotationSpeed, y |-> dy * dragRotationSpeed]

DeltaRotation(dx, dy) ==
  [op |-> "premultiply", x |-> dy * dragRotationSpeed, y |-> dx * dragRotationSpeed]

\* The rotation by no angle is the identity quaternion.
IsIdentity(d) == d.x = 0 /\ d.y = 0

\* group.quaternion.multiplyQuaternions(delta, group.quaternion)
MultiplyQuaternions(d, q) == IF IsIdentity(d) THEN q ELSE Append(q, d)

\* group.rotation.x += s; group.rotation.y += s
EulerAdd(q, s) ==
  IF q # <<>> /\ q[Len(q)].op = "euler"
    THEN [q EXCEPT ![Len(q)] = [op |-> "euler", x |-> @.x + s, y |-> @.y + s]]
    ELSE Append(q, [op |-> "euler", x |-> s, y |-> s])

\* Mutation: the auto-rotation ignores the drag flag.
AutoRotate_Always(q, dragging) == EulerAdd(q, wholeCubeRotationSpeed)

\* Whole cube auto-rotation
AutoRotate(q, dragging) ==
  IF ~dragging THEN EulerAdd(q, wholeCubeRotationSpeed) ELSE q

\* ------------------------------------------------------- layer scheduler
\* Mutation: the pause ends as soon as pauseDuration has elapsed.
PauseOver_AtDuration(t, start) == t - start >= pauseDuration

PauseOver(t, start) == t - start > pauseDuration

\* Mutation: the rotation is still in progress at progress = 1.
InProgress_Inclusive(elapsed) == elapsed <= rotationDuration

\* progress < 1, with progress = elapsed / rotationDuration
InProgress(elapsed) == elapsed < rotationDuration

\* Mutation: progress * Math.PI, a half turn.
RowAngle_HalfTurn(elapsed) == (elapsed * 2 * QuarterTurn) \div rotationDuration

\* progress * Math.PI / 2
RowAngle(elapsed) == (elapsed * QuarterTurn) \div rotationDuration

\* Mutation: the scheduler skips a layer.
NextRow_Skip(i, n) == (i + 2) % n

NextRow(i, n) == (i + 1) % n

\* Mutation: the angle in progress is written to the layer after the current one.
TimedRowRotation_NextLayer(s, t) ==
  LET starts == ~s.isRotating /\ PauseOver(t, s.rotationStartTime)
      rotating == s.isRotating \/ starts
      start == IF starts THEN t ELSE s.rotationStartTime
      elapsed == t - start
      i == s.currentRowIndex + 1
      j == NextRow(s.currentRowIndex, Len(s.rows)) + 1
  IN  IF ~rotating THEN s
      ELSE IF InProgress(elapsed)
        THEN [s EXCEPT !.isRotating = TRUE, !.rotationStartTime = start,
                       !.rows[j] = RowAngle(elapsed)]
        ELSE [s EXCEPT !.isRotating = FALSE, !.rotationStartTime = t,
                       !.rows[i] = QuarterTurn,
                       !.currentRowIndex = NextRow(s.currentRowIndex, Len(s.rows)),
                       !.settled = Append(s.settled, s.currentRowIndex)]

\* The timed row rotation of one frame at timestamp t, on the scheduler state s.
TimedRowRotation(s, t) ==
  LET starts == ~s.isRotating /\ PauseOver(t, s.rotationStartTime)
      rotating == s.isRotating \/ starts
      start == IF starts THEN t ELSE s.rotationStartTime
      elapsed == t - start
      i == s.currentRowIndex + 1
  IN  IF ~rotating THEN s
      ELSE IF InProgress(elapsed)
        THEN [s EXCEPT !.isRotating = TRUE, !.rotationStartTime = start,
                       !.rows[i] = RowAngle(elapsed)]
        ELSE [s EXCEPT !.isRotating = FALSE, !.rotationStartTime = t,
                       !.rows[i] = QuarterTurn,
                       !.currentRowIndex = NextRow(s.currentRowIndex, Len(s.rows)),
                       !.settled = Append(s.settled, s.currentRowIndex)]

\* ------------------------------------------------------------------ zoom
\* Mutation: the upper bound is not applied.
Clamp_NoUpper(v, lo, hi) == MaxOf(lo, v)

\* Math.max(lo, Math.min(hi, v))
Clamp(v, lo, hi) == MaxOf(lo, MinOf(hi, v))

\* Mutation: the target is not clamped.
Zoom_Unclamped(target, delta) == [target EXCEPT !.n = @ + delta * zoomSpeed]

\* zoom(delta); the target has no decimal places
Zoom(target, delta) ==
  Clamp([target EXCEPT !.n = @ + delta * zoomSpeed],
        Whole(minZoom), Whole(maxZoom))

\* The distance (n + r * f) / 10^e with the fewest decimal places.
RECURSIVE Norm(_)
Norm(c) ==
  IF c.e > 0 /\ c.n % 10 = 0 /\ c.r % 10 = 0
    THEN Norm([n |-> c.n \div 10, r |-> c.r \div 10, e |-> c.e - 1])
    ELSE c

\* targetZoom - currentZoom, with the decimal places of currentZoom
Gap(cur, target) == Minus(Scaled(target, cur.e), cur)

\* Mutation: the distance moves by a fifth of the gap.
SmoothZoom_Fifth(cur, target) ==
  LET gap == Gap(cur, target)
  IN  Norm([n |-> cur.n * SmoothDen + 2 * gap.n,
            r |-> cur.r * SmoothDen + 2 * gap.r,
            e |-> cur.e + 1])

\* currentZoom += (targetZoom - currentZoom) * 0.1
SmoothZoom(cur, target) ==
  LET gap == Gap(cur, target)
  IN  Norm([n |-> cur.n * SmoothDen + gap.n,
            r |-> cur.r * SmoothDen + gap.r,
            e |-> cur.e + 1])

\* ------------------------------------------------------------------ Init
\* The state the effect leaves: scene, grid and listeners built, animate(0) run.
Init ==
  /\ time = 0
  /\ rafPending = TRUE
  /\ refsLive = TRUE
  /\ mountRef = TRUE
  /\ canvasInMount = TRUE
  /\ disposeCount = 0
  /\ cleanupRuns = 0
  /\ listeners = ListenerNames
  /\ hasError = FALSE
  /\ uncaught = 0
  /\ frameResult = "rendered"
  /\ isDragging = FALSE
  /\ previousMousePosition = <<0, 0>>
  /\ orientation = AutoRotate(<<>>, FALSE)
  /\ isHovering = FALSE
  /\ isRotating = FALSE
  /\ currentRowIndex = 0
  /\ rotationStartTime = 0
  /\ rows = [i \in 1..gridSize |-> 0]
  /\ settled = <<>>
  /\ targetZoom = CameraDistance
  /\ currentZoom = targetZoom
  /\ previousTouchDistance = 0
  /\ viewSize = <<800, 600>>
  /\ staleLoops = <<>>
  /\ touches = <<>>
  /\ idle = [ticks |-> 1, n |-> 0, r |-> 0, e |-> 0]
  /\ events = 0
  /\ lastOp = "setup"
  /\ defaultPrevented = FALSE

\* ------------------------------------------------------------- animate
\* One call of animate(t) by requestAnimationFrame, t = time + dt.  `throws`:
\* renderer.render raises; the exception leaves the callback uncaught.
\* The animate loops of earlier setups, which teardown has not cancelled, run
\* in the frame at timestamp t before the loop of the current setup: each on
\* its own closure (isRotating, currentRowIndex, rotationStartTime) and on the
\* one list rowsRef.current.  Of their closures the scheduler is kept only;
\* their group and camera are out of the scene on screen.
RECURSIVE RunStale(_, _, _, _)
RunStale(loops, rws, stl, t) ==
  IF loops = <<>>
    THEN [loops |-> <<>>, rows |-> rws, settled |-> stl]
    ELSE LET s == TimedRowRotation(
                    [isRotating |-> Head(loops).isRotating,
                     currentRowIndex |-> Head(loops).currentRowIndex,
                     rotationStartTime |-> Head(loops).rotationStartTime,
                     rows |-> rws, settled |-> stl], t)
             rest == RunStale(Tail(loops), s.rows, s.settled, t)
         IN  [loops |-> <<[isRotating |-> s.isRotating,
                           currentRowIndex |-> s.currentRowIndex,
                           rotationStartTime |-> s.rotationStartTime]>>
                        \o rest.loops,
              rows |-> rest.rows, settled |-> rest.settled]

Animate(dt, throws, limit) ==
  /\ rafPending
  /\ time + dt <= limit
  /\ time' = time + dt
  /\ lastOp' = "animate"
  /\ defaultPrevented' = FALSE
  /\ UNCHANGED <<lifeVars, dragVars, isHovering, targetZoom,
                 previousTouchDistance, viewSize, touches, events>>
  /\ IF refsLive
       THEN LET stale == RunStale(staleLoops, rows, settled, time + dt)
                s == TimedRowRotation(
                       [isRotating |-> isRotating,
                        currentRowIndex |-> currentRowIndex,
                        rotationStartTime |-> rotationStartTime,
                        rows |-> stale.rows, settled |-> stale.settled],
                       time + dt)
                z == SmoothZoom(currentZoom, targetZoom)
            IN  /\ currentZoom.e < MaxZoomExp
                /\ Len(AutoRotate(orientation, isDragging)) <= MaxOrientOps
                /\ rafPending' = TRUE
                /\ staleLoops' = stale.loops
                /\ orientation' = AutoRotate(orientation, isDragging)
                /\ isRotating' = s.isRotating
                /\ currentRowIndex' = s.currentRowIndex
                /\ rotationStartTime' = s.rotationStartTime
                /\ rows' = s.rows
                /\ settled' = s.settled
                /\ currentZoom' = z
                /\ idle' = [idle EXCEPT !.ticks = @ + 1]
                /\ frameResult' = IF throws THEN "threw" ELSE "rendered"
                /\ uncaught' = IF throws THEN uncaught + 1 ELSE uncaught
       ELSE /\ rafPending' = FALSE
            /\ frameResult' = "noop"
            /\ UNCHANGED <<orientation, schedVars, currentZoom, uncaught, idle,
                           staleLoops>>

\* ------------------------------------------------------- input handlers
\* The gesture state the handlers read and write.
Gesture ==
  [isDragging |-> isDragging,
   previousMousePosition |-> previousMousePosition,
   orientation |-> orientation,
   previousTouchDistance |-> previousTouchDistance,
   targetZoom |-> targetZoom,
   zoomed |-> FALSE,
   defaultPrevented |-> FALSE]

StartDragging(g, p) ==
  [g EXCEPT !.isDragging = TRUE, !.previousMousePosition = p]

StopDragging(g) == [g EXCEPT !.isDragging = FALSE]

Drag(g, p) ==
  IF g.isDragging
    THEN LET dx == p[1] - g.previousMousePosition[1]
             dy == p[2] - g.previousMousePosition[2]
         IN  [g EXCEPT
                !.orientation = MultiplyQuaternions(DeltaRotation(dx, dy), @),
                !.previousMousePosition = p]
    ELSE g

ZoomBy(g, delta) == [g EXCEPT !.targetZoom = Zoom(@, delta), !.zoomed = TRUE]

PreventDefault(g) == [g EXCEPT !.defaultPrevented = TRUE]

\* Math.hypot(touches[0].pageX - touches[1].pageX, touches[0].pageY - touches[1].pageY)
TouchDistance(ts) == Hypot(ts[1][1] - ts[2][1], ts[1][2] - ts[2][2])

OnMouseDown(g, p) == StartDragging(g, p)
OnMouseMove(g, p) == Drag(g, p)
OnMouseUp(g) == StopDragging(g)
OnWheel(g, deltaY) == ZoomBy(PreventDefault(g), deltaY)

\* Mutation: two or more touches are taken for a pinch.
OnTouchStart_AtLeastTwo(g, ts) ==
  IF Len(ts) = 1 THEN StartDragging(PreventDefault(g), ts[1])
  ELSE IF Len(ts) >= 2
    THEN [g EXCEPT !.previousTouchDistance = TouchDistance(ts)]
  ELSE g

OnTouchStart(g, ts) ==
  IF Len(ts) = 1 THEN StartDragging(PreventDefault(g), ts[1])
  ELSE IF Len(ts) = 2
    THEN [g EXCEPT !.previousTouchDistance = TouchDistance(ts)]
  ELSE g

\* Mutation: a touch move drags with the first finger whatever the touch count.
OnTouchMove_DragAlways(g, ts) ==
  IF Len(ts) = 1 THEN Drag(PreventDefault(g), ts[1])
  ELSE IF Len(ts) = 2
    THEN [ZoomBy(Drag(g, ts[1]), g.previousTouchDistance - TouchDistance(ts))
            EXCEPT !.previousTouchDistance = TouchDistance(ts)]
  ELSE g

OnTouchMove(g, ts) ==
  IF Len(ts) = 1 THEN Drag(PreventDefault(g), ts[1])
  ELSE IF Len(ts) = 2
    THEN [ZoomBy(g, g.previousTouchDistance - TouchDistance(ts))
            EXCEPT !.previousTouchDistance = TouchDistance(ts)]
  ELSE g

OnTouchEnd(g) == StopDragging(g)

\* The event `name` is dispatched: its listener, when one is registered, runs
\* and leaves the gesture g; with no listener the event changes nothing.
Handled(name, g) ==
  /\ events < MaxEvents
  /\ events' = events + 1
  /\ IF name \in listeners
       THEN /\ Len(g.orientation) <= MaxOrientOps
            /\ isDragging' = g.isDragging
            /\ previousMousePosition' = g.previousMousePosition
            /\ orientation' = g.orientation
            /\ previousTouchDistance' = g.previousTouchDistance
            /\ targetZoom' = g.targetZoom
            /\ defaultPrevented' = g.defaultPrevented
            /\ idle' = IF g.zoomed
                        THEN LET gap == Gap(currentZoom, g.targetZoom)
                             IN  [ticks |-> 0, n |-> gap.n, r |-> gap.r,
                                  e |-> gap.e]
                        ELSE idle
            /\ lastOp' = name
       ELSE UNCHANGED <<dragVars, orientation, previousTouchDistance,
                        targetZoom, defaultPrevented, idle, lastOp>>
  /\ UNCHANGED <<lifeVars, frameVars, schedVars, currentZoom, viewSize,
                 staleLoops>>

MouseDown(p) ==
  /\ Handled("mousedown", OnMouseDown(Gesture, p))
  /\ UNCHANGED <<isHovering, touches>>

\* checkHover: `hit` is whether the ray through the pointer meets a cube.
MouseMove(p, hit) ==
  /\ Handled("mousemove", OnMouseMove(Gesture, p))
  /\ isHovering' = IF "mousemove" \in listeners THEN hit ELSE isHovering
  /\ UNCHANGED touches

\* handleResize, for a window resized to sz
Resize(sz) ==
  /\ events < MaxEvents
  /\ events' = events + 1
  /\ IF "resize" \in listeners /\ refsLive
       THEN viewSize' = sz /\ lastOp' = "resize"
       ELSE UNCHANGED <<viewSize, lastOp>>
  /\ defaultPrevented' = IF "resize" \in listeners THEN FALSE ELSE defaultPrevented
  /\ UNCHANGED <<lifeVars, frameVars, dragVars, orientation, isHovering,
                 schedVars, zoomVars, previousTouchDistance, staleLoops,
                 touches, idle>>

MouseUp ==
  /\ Handled("mouseup", OnMouseUp(Gesture))
  /\ UNCHANGED <<isHovering, touches>>

Wheel(deltaY) ==
  /\ Handled("wheel", OnWheel(Gesture, deltaY))
  /\ UNCHANGED <<isHovering, touches>>

\* A finger goes down at p: event.touches holds it after the fingers already down.
TouchStart(p) ==
  /\ Len(touches) < MaxTouches
  /\ touches' = Append(touches, p)
  /\ Handled("touchstart", OnTouchStart(Gesture, touches'))
  /\ UNCHANGED isHovering

\* Finger i moves to p.
TouchMove(i, p) ==
  /\ i \in 1..Len(touches)
  /\ touches[i] # p
  /\ touches' = [touches EXCEPT ![i] = p]
  /\ Handled("touchmove", OnTouchMove(Gesture, touches'))
  /\ UNCHANGED isHovering

\* A touch start or touch move whose event.touches is ts, a list of neither
\* one nor two touches (several fingers landing together, a synthetic event).
TouchOther(name, ts) ==
  /\ touches' = ts
  /\ Handled(name, IF name = "touchstart" THEN OnTouchStart(Gesture, ts)
                                           ELSE OnTouchMove(Gesture, ts))
  /\ UNCHANGED isHovering

\* Finger i is lifted: event.touches holds the fingers that stay.
TouchEnd(i) ==
  /\ i \in 1..Len(touches)
  /\ touches' = [k \in 1..(Len(touches) - 1) |->
                   IF k < i THEN touches[k] ELSE touches[k + 1]]
  /\ Handled("touchend", OnTouchEnd(Gesture))
  /\ UNCHANGED isHovering

\* ------------------------------------------------------------- teardown
\* The function the effect returns.  removeChild of an element that is not a
\* child of the mount raises NotFoundError, which ends the call.
\* Mutation: the resize listener is left registered.
RemovedListeners_InputOnly == ListenerNames \ {"resize"}

\* The listeners the cleanup function removes.
RemovedListeners == ListenerNames

Cleanup ==
  /\ cleanupRuns < MaxCleanups
  /\ cleanupRuns' = cleanupRuns + 1
  /\ listeners' = listeners \ RemovedListeners
  /\ lastOp' = "cleanup"
  /\ defaultPrevented' = FALSE
  /\ IF mountRef /\ refsLive /\ ~canvasInMount
       THEN /\ uncaught' = uncaught + 1
            /\ UNCHANGED <<canvasInMount, disposeCount>>
       ELSE /\ canvasInMount' = IF mountRef /\ refsLive THEN FALSE ELSE canvasInMount
            /\ disposeCount' = IF refsLive THEN disposeCount + 1 ELSE disposeCount
            /\ UNCHANGED uncaught
  /\ UNCHANGED <<time, rafPending, frameResult, refsLive, mountRef, hasError,
                 dragVars, orientation, isHovering, schedVars, zoomVars,
                 previousTouchDistance, viewSize, staleLoops, touches, idle,
                 events>>

\* The effect runs again on the same component instance after its cleanup
\* (React runs a mounted component's effect, its cleanup and the effect again
\* in strict mode).  The refs are those of the first run: rowsRef.current is
\* pushed to, never emptied; the closure variables, the scene objects and the
\* listeners are new; animate(0) runs before the effect returns; the window
\* has the size sz.
Setup(sz) ==
  /\ cleanupRuns > 0
  /\ mountRef
  /\ Len(staleLoops) < MaxRemounts
  /\ refsLive' = TRUE
  /\ canvasInMount' = TRUE
  /\ disposeCount' = 0
  /\ cleanupRuns' = 0
  /\ listeners' = ListenerNames
  /\ rows' = rows \o [i \in 1..gridSize |-> 0]
  /\ staleLoops' = IF rafPending
                     THEN Append(staleLoops,
                                 [isRotating |-> isRotating,
                                  currentRowIndex |-> currentRowIndex,
                                  rotationStartTime |-> rotationStartTime])
                     ELSE staleLoops
  /\ rafPending' = TRUE
  /\ frameResult' = "rendered"
  /\ isDragging' = FALSE
  /\ previousMousePosition' = <<0, 0>>
  /\ orientation' = AutoRotate(<<>>, FALSE)
  /\ isRotating' = FALSE
  /\ currentRowIndex' = 0
  /\ rotationStartTime' = 0
  /\ targetZoom' = CameraDistance
  /\ currentZoom' = targetZoom'
  /\ previousTouchDistance' = 0
  /\ viewSize' = sz
  /\ idle' = [ticks |-> 1, n |-> 0, r |-> 0, e |-> 0]
  /\ lastOp' = "setup"
  /\ defaultPrevented' = FALSE
  /\ UNCHANGED <<time, uncaught, mountRef, hasError, isHovering, settled,
                 touches, events>>

\* React clears the ref of the div when the div is unmounted.
DetachRef ==
  /\ mountRef
  /\ mountRef' = FALSE
  /\ lastOp' = "unmount"
  /\ defaultPrevented' = FALSE
  /\ UNCHANGED <<time, rafPending, frameResult, uncaught, refsLive,
                 canvasInMount, disposeCount, cleanupRuns, listeners, hasError,
                 dragVars, orientation, isHovering, schedVars, zoomVars,
                 previousTouchDistance, viewSize, staleLoops, touches, idle,
                 events>>

\* --------------------------------------------------------- specifications
\* Frames only, no input: the layer scheduler over a long run.
Frame == \E dt \in FrameSteps : Animate(dt, FALSE, MaxTime)

NextSched == Frame

SpecSched == Init /\ [][NextSched]_vars

\* Frames, a renderer that may raise, teardown.
FrameMayThrow ==
  \E dt \in FrameSteps, throws \in BOOLEAN : Animate(dt, throws, MaxShortTime)

NextLife == FrameMayThrow \/ Cleanup \/ DetachRef

SpecLife == Init /\ [][NextLife]_vars

\* Frames and every input event.
ShortFrame == \E dt \in FrameSteps : Animate(dt, FALSE, MaxShortTime)

NextInput ==
  \/ ShortFrame
  \/ \E p \in Points : MouseDown(p)
  \/ \E p \in Points, hit \in BOOLEAN : MouseMove(p, hit)
  \/ MouseUp
  \/ \E d \in WheelDeltas : Wheel(d)
  \/ \E p \in Points : TouchStart(p)
  \/ \E i \in 1..MaxTouches, p \in Points : TouchMove(i, p)
  \/ \E i \in 1..MaxTouches : TouchEnd(i)

SpecInput == Init /\ [][NextInput]_vars

\* Frames, the wheel and the touch events: the zoom over several frames.
ZoomFrame == \E dt \in FrameSteps : Animate(dt, FALSE, MaxZoomTime)

ZoomBudget == events < MaxZoomEvents

NextZoom ==
  \/ ZoomFrame
  \/ \E d \in WheelDeltas : ZoomBudget /\ Wheel(d)
  \/ \E p \in Points : ZoomBudget /\ TouchStart(p)
  \/ \E i \in 1..MaxTouches, p \in Points : ZoomBudget /\ TouchMove(i, p)
  \/ \E i \in 1..MaxTouches : ZoomBudget /\ TouchEnd(i)

SpecZoom == Init /\ [][NextZoom]_vars

\* Frames, teardown and a fresh setup of the same component instance.
RemountFrame == \E dt \in FrameSteps : Animate(dt, FALSE, MaxRemountTime)

NextRemount ==
  \/ RemountFrame
  \/ Cleanup
  \/ \E sz \in WindowSizes : Setup(sz)

SpecRemount == Init /\ [][NextRemount]_vars

\* Frames and touch events with any number of touches.
NextTouch ==
  \/ ShortFrame
  \/ \E p \in Points : TouchStart(p)
  \/ \E i \in 1..MaxTouches, p \in Points : TouchMove(i, p)
  \/ \E i \in 1..(MaxTouches + 1) : TouchEnd(i)
  \/ \E name \in {"touchstart", "touchmove"}, ts \in OtherTouchLists :
        TouchOther(name, ts)

SpecTouch == Init /\ [][NextTouch]_vars

\* Frames, every input event, the resize of the window, teardown.
TeardownBudget == events < MaxTeardownEvents

NextTeardown ==
  \/ ShortFrame
  \/ Cleanup
  \/ \E p \in Points : TeardownBudget /\ MouseDown(p)
  \/ \E p \in Points, hit \in BOOLEAN : TeardownBudget /\ MouseMove(p, hit)
  \/ TeardownBudget /\ MouseUp
  \/ \E d \in WheelDeltas : TeardownBudget /\ Wheel(d)
  \/ \E p \in Points : TeardownBudget /\ TouchStart(p)
  \/ \E i \in 1..MaxTouches, p \in Points : TeardownBudget /\ TouchMove(i, p)
  \/ \E i \in 1..MaxTouches : TeardownBudget /\ TouchEnd(i)
  \/ \E sz \in WindowSizes : TeardownBudget /\ Resize(sz)

SpecTeardown == Init /\ [][NextTeardown]_vars

\* ----------------------------------------------------------------- claims
MaxFrame == CHOOSE d \in FrameSteps : \A e \in FrameSteps : e <= d
Cycle == rotationDuration + pauseDuration
AllAtQuarterTurn == \A i \in 1..Len(rows) : rows[i] = QuarterTurn

\* C1 as stated: after a run of 3 * (rotationDuration + pauseDuration) ms with
\* no input, each of the 3 layers has been rotated exactly once, in the order
\* 0, 1, 2, and each has its angle at exactly 90 degrees.
C1_AllRotatedWithinThreeCycles ==
  time = 3 * Cycle => settled = <<0, 1, 2>> /\ AllAtQuarterTurn

\* C1 amended: the layers complete in the cyclic order 0, 1, 2 and a completed
\* layer that is not being rotated again is at exactly 90 degrees; up to
\* 3 * Cycle ms at most layers 0 and 1 have completed and layer 2 is below 90
\* degrees; with frames at most MaxFrame ms apart, from 3 * (Cycle + 2 * MaxFrame)
\* ms until 3 * Cycle + pauseDuration ms each of the 3 layers has been rotated
\* exactly once, in the order 0, 1, 2, and is at exactly 90 degrees.
C1_RotatedOnceInOrder ==
  /\ \A k \in 1..Len(settled) : settled[k] = (k - 1) % gridSize
  /\ \A k \in 1..Len(settled) :
        \/ isRotating /\ currentRowIndex = settled[k]
        \/ rows[settled[k] + 1] = QuarterTurn
  /\ time <= 3 * Cycle => Len(settled) <= 2 /\ rows[3] < QuarterTurn
  /\ time >= 3 * (Cycle + 2 * MaxFrame) /\ time <= 3 * Cycle + pauseDuration
       => settled = <<0, 1, 2>> /\ AllAtQuarterTurn /\ ~isRotating

C1_Witness ==
  /\ time = 3 * (Cycle + 2 * MaxFrame)
  /\ settled = <<0, 1, 2>>
  /\ AllAtQuarterTurn

\* C2 as stated: with no input layer 0 begins rotating once 3000 ms have
\* elapsed and not before, its angle is 45 degrees at 3500 ms, and at 4000 ms
\* it settles at exactly 90 degrees, the scheduler is Paused and the pause
\* timer of layer 1 starts at that tick.
C2_ScenarioAtFixedTimes ==
  /\ time < pauseDuration => ~isRotating
  /\ time = pauseDuration => isRotating /\ currentRowIndex = 0
  /\ time = pauseDuration + 500 => rows[1] = QuarterTurn \div 2
  /\ time = pauseDuration + rotationDuration =>
        /\ rows[1] = QuarterTurn
        /\ ~isRotating
        /\ currentRowIndex = 1
        /\ rotationStartTime = time

\* C2 amended: with no input layer 0 begins rotating at the first tick whose
\* timestamp exceeds 3000 ms (a tick at exactly 3000 ms does not start it);
\* at the tick 500 ms after that start its angle is 45 degrees; at the first
\* tick 1000 ms or more after the start it settles at exactly 90 degrees, the
\* scheduler is Paused, and the pause timer of layer 1 is set to that tick.
C2_FirstRotation ==
  /\ [](time <= pauseDuration =>
          ~isRotating /\ settled = <<>> /\ rows[1] = 0)
  /\ [](isRotating /\ settled = <<>> =>
          /\ currentRowIndex = 0
          /\ rotationStartTime > pauseDuration
          /\ time < rotationStartTime + rotationDuration
          /\ time = rotationStartTime + 500 => rows[1] = QuarterTurn \div 2)
  /\ [][time <= pauseDuration /\ time' > pauseDuration =>
          isRotating' /\ rotationStartTime' = time' /\ rows'[1] = 0]_vars
  /\ [][isRotating /\ settled = <<>> =>
          IF time' >= rotationStartTime + rotationDuration
            THEN /\ rows'[1] = QuarterTurn
                 /\ ~isRotating'
                 /\ settled' = <<0>>
                 /\ currentRowIndex' = 1
                 /\ rotationStartTime' = time'
            ELSE isRotating' /\ rotationStartTime' = rotationStartTime]_vars

C2_Witness ==
  /\ settled = <<0>>
  /\ rows[1] = QuarterTurn
  /\ ~isRotating
  /\ currentRowIndex = 1
  /\ rotationStartTime = time
  /\ time > pauseDuration + rotationDuration

\* A step that runs animate, an input handler, the cleanup function.
FrameStep == time' # time
EventStep(name) == events' = events + 1 /\ lastOp' = name
CleanupStep == cleanupRuns' = cleanupRuns + 1

\* C3: after the cleanup function has run, a tick is a no-op: it performs no
\* update and no render and does not schedule another tick.
C3_TeardownStopsFrames ==
  [][cleanupRuns > 0 /\ FrameStep =>
       /\ frameResult' = "noop"
       /\ ~rafPending'
       /\ UNCHANGED <<orientation, schedVars, currentZoom>>]_vars

\* C4: a second run of the cleanup function raises no fault and releases
\* nothing again: the renderer is disposed once and its element is removed
\* from the mount once.
C4_TeardownIdempotent ==
  [][cleanupRuns >= 1 /\ CleanupStep =>
       /\ uncaught' = uncaught
       /\ disposeCount' = disposeCount
       /\ canvasInMount' = canvasInMount]_vars

\* C5: a fault raised during a frame's update is caught at the boundary: the
\* fallback state is shown and no further tick is scheduled.
C5_FaultStopsTicking ==
  frameResult = "threw" => hasError /\ ~rafPending

\* C6: a tick that runs while a drag is active (after a drag start, before the
\* next drag end) leaves the grid orientation unchanged; a tick that runs
\* while no drag is active applies the auto-rotation increment exactly once.
\* The drag is active from a drag start (mouse down, touch start with one
\* touch) to the next drag end (mouse up, touch end).
C6_AutoSpinOnlyWhenNotDragging ==
  /\ [][FrameStep =>
          IF isDragging
            THEN orientation' = orientation
            ELSE orientation' = EulerAdd(orientation, wholeCubeRotationSpeed)]_vars
  /\ [][isDragging' # isDragging =>
          IF isDragging'
            THEN \/ EventStep("mousedown")
                 \/ EventStep("touchstart") /\ Len(touches') = 1
            ELSE EventStep("mouseup") \/ EventStep("touchend")]_vars
  /\ [][\/ EventStep("mousedown")
        \/ EventStep("touchstart") /\ Len(touches') = 1
        => isDragging']_vars
  /\ [][EventStep("mouseup") \/ EventStep("touchend") => ~isDragging']_vars

\* A tick has run during a drag that started after setup, and has left the
\* orientation of setup.
C6_Witness ==
  /\ lastOp = "animate"
  /\ time > 0
  /\ isDragging
  /\ orientation = <<[op |-> "euler", x |-> wholeCubeRotationSpeed,
                      y |-> wholeCubeRotationSpeed]>>

\* C7 as stated: when a second finger goes down during a single-finger drag,
\* the drag is no longer in progress from that event on.
C7_SecondFingerEndsDrag ==
  [][Len(touches) = 1 /\ isDragging /\ EventStep("touchstart") => ~isDragging']_vars

\* C7 amended: a second finger going down during a single-finger drag leaves
\* the drag flag set and the orientation unchanged; a touch move rotates the
\* grid only if it carries exactly one touch and the drag flag is set, so a
\* touch move with two touches never rotates the grid; every touch end clears
\* the drag flag.
C7_TwoFingersDoNotDrag ==
  /\ [][Len(touches) = 1 /\ isDragging /\ EventStep("touchstart") =>
          isDragging' /\ orientation' = orientation]_vars
  /\ [][EventStep("touchmove") /\ orientation' # orientation =>
          Len(touches') = 1 /\ isDragging]_vars
  /\ [][EventStep("touchmove") /\ Len(touches') = 2 =>
          orientation' = orientation /\ isDragging' = isDragging]_vars
  /\ [][EventStep("touchend") => ~isDragging']_vars

\* A two-finger touch move has run while the drag flag of the first finger
\* was still set.
C7_Witness ==
  /\ lastOp = "touchmove"
  /\ Len(touches) = 2
  /\ isDragging
  /\ touches[1] # previousMousePosition

\* C8: the wheel handler and the touch start and touch move handlers call
\* preventDefault on every invocation, whatever the number of touches.
C8_DefaultAlwaysPrevented ==
  lastOp \in {"wheel", "touchstart", "touchmove"} => defaultPrevented

\* C9: targetZoom is within [minZoom, maxZoom] in every reachable state, and
\* zoom(+100) from a target of 10 gives 20, the value of maxZoom.
C9_TargetWithinBounds ==
  /\ ~Less(targetZoom, Whole(minZoom))
  /\ ~Less(Whole(maxZoom), targetZoom)
  /\ targetZoom.e = 0
  /\ Zoom(Whole(100), 100) = Whole(200)
  /\ maxZoom = 200

\* A wheel event has pushed the target onto the upper bound.
C9_Witness ==
  /\ lastOp = "wheel"
  /\ targetZoom = Whole(maxZoom)
  /\ idle.e = 0
  /\ Sign(idle.n - 100, idle.r) < 0

\* C10: with no further zoom delta each tick multiplies the gap between target
\* and distance by 0.9: the gap never grows, and k ticks after the last delta
\* it is 0.9^k times the gap that delta left (so it is below any epsilon after
\* a number of ticks that depends only on epsilon and that gap).
C10_GapDecays ==
  /\ [](LET k == idle.ticks
            E == Max(currentZoom.e, idle.e + k)
            gap == Gap(currentZoom, targetZoom)
        IN  E <= MaxZoomExp =>
              /\ gap.n * Pow(10, E - currentZoom.e)
                   = Pow(9, k) * idle.n * Pow(10, E - idle.e - k)
              /\ gap.r * Pow(10, E - currentZoom.e)
                   = Pow(9, k) * idle.r * Pow(10, E - idle.e - k))
  /\ [][FrameStep =>
          LET gap == Gap(currentZoom, targetZoom)
              gap1 == Gap(currentZoom', targetZoom')
              up == Pow(10, currentZoom.e + 1 - currentZoom'.e)
          IN  /\ gap1.n * up = 9 * gap.n
              /\ gap1.r * up = 9 * gap.r
              /\ Sign(gap1.n, gap1.r) = Sign(gap.n, gap.r)]_vars

\* Six ticks have run since a zoom delta that left a gap.
C10_Witness ==
  /\ idle.ticks = 6
  /\ Sign(idle.n, idle.r) # 0
  /\ Sign(Gap(currentZoom, targetZoom).n, Gap(currentZoom, targetZoom).r) # 0

\* C11: the cleanup function removes every listener setup registered, so that
\* after teardown no mouse, wheel, touch or resize event changes the gesture
\* state, the orientation, the zoom or the size given to camera and renderer.
C11_TeardownRemovesListeners ==
  /\ [](cleanupRuns > 0 => listeners = {})
  /\ [][cleanupRuns > 0 /\ events' = events + 1 =>
          UNCHANGED <<isDragging, previousMousePosition, previousTouchDistance,
                      orientation, targetZoom, currentZoom, viewSize,
                      isHovering, lastOp>>]_vars

\* The only event of the run, a finger put down after teardown, started no drag.
C11_Witness ==
  /\ cleanupRuns > 0
  /\ lastOp = "cleanup"
  /\ events = 1
  /\ Len(touches) = 1
  /\ ~isDragging
  /\ previousMousePosition = <<0, 0>>

\* C12: a touch start or touch move whose touch list is empty or holds a number
\* of touches other than 1 or 2 raises no fault and leaves the drag flag, the
\* last pointer position, the last pinch distance, the orientation and the
\* zoom target unchanged.
C12_OtherTouchCountsIgnored ==
  [][(EventStep("touchstart") \/ EventStep("touchmove"))
       /\ Len(touches') \notin {1, 2} =>
       UNCHANGED <<isDragging, previousMousePosition, previousTouchDistance,
                   orientation, targetZoom, uncaught, frameResult>>]_vars

\* A touch move with three touches came while a drag was in progress.
C12_Witness ==
  /\ lastOp = "touchmove"
  /\ Len(touches) = 3
  /\ isDragging
  /\ previousMousePosition = <<103, 104>>

\* A touch start with an empty touch list came while a drag was in progress.
C12_WitnessEmpty == lastOp = "touchstart" /\ touches = <<>> /\ isDragging

\* C20: the zoom delta of a two-finger touch move is the distance the two
\* fingers had at the two-finger touch event before it, minus their distance
\* now; neither a distance of an earlier gesture nor the initial 0 is used,
\* also when two fingers are left after lifting one of three.
C20_PinchDeltaFromThisGesture ==
  [][EventStep("touchmove") /\ Len(touches') = 2 =>
       /\ previousTouchDistance = TouchDistance(touches)
       /\ targetZoom' = Zoom(targetZoom, TouchDistance(touches)
                                          - TouchDistance(touches'))]_vars

\* One of three fingers was lifted and the two that stay have moved: the pinch
\* was measured from the distance 0 of setup.
C20_StaleDistanceUsed ==
  /\ lastOp = "touchmove"
  /\ events = 3
  /\ Len(touches) = 2
  /\ Less(targetZoom, CameraDistance)

\* C14: at most one layer is rotating at any time.  A frame changes the angle
\* of no layer but the one at the current index, and only while that layer is
\* rotating or starts to; a frame of a pause that goes on writes no angle; a
\* layer strictly between 0 and 90 degrees is the current one, in rotation.
C14_OneLayerAtATime ==
  /\ [](\A i \in 1..Len(rows) :
          (rows[i] # 0 /\ rows[i] # QuarterTurn) =>
            isRotating /\ i = currentRowIndex + 1)
  /\ [][FrameStep =>
          /\ \A i \in 1..Len(rows) :
               rows'[i] # rows[i] =>
                 /\ i = currentRowIndex + 1
                 /\ isRotating \/ PauseOver(time', rotationStartTime)
          /\ (~isRotating /\ ~PauseOver(time', rotationStartTime)) =>
               rows' = rows /\ ~isRotating']_vars

\* The second layer is in mid rotation, the first settled, the third untouched.
C14_Witness ==
  /\ isRotating
  /\ currentRowIndex = 1
  /\ rows[1] = QuarterTurn
  /\ rows[2] > 0 /\ rows[2] < QuarterTurn
  /\ rows[3] = 0

\* C15: within one rotation phase the angle of the active layer does not
\* decrease from frame to frame and is progress * 90 degrees while
\* progress < 1; the first frame with progress >= 1 writes exactly 90 degrees
\* and, in that frame, pauses the scheduler, advances the index modulo 3 and
\* resets the phase timer to the frame's timestamp, so that the next rotation
\* does not start in that frame.
C15_RotationPhase ==
  [][FrameStep /\ isRotating =>
       LET i == currentRowIndex + 1
           elapsed == time' - rotationStartTime
       IN  /\ rows'[i] >= rows[i]
           /\ IF elapsed < rotationDuration
                THEN /\ rows'[i] = (elapsed * QuarterTurn) \div rotationDuration
                     /\ isRotating'
                     /\ currentRowIndex' = currentRowIndex
                     /\ rotationStartTime' = rotationStartTime
                ELSE /\ rows'[i] = QuarterTurn
                     /\ ~isRotating'
                     /\ currentRowIndex' = (currentRowIndex + 1) % 3
                     /\ rotationStartTime' = time'
                     /\ rows'[currentRowIndex' + 1] = rows[currentRowIndex' + 1]]_vars

\* The second layer has just settled: the scheduler pauses on the third layer,
\* its timer at the timestamp of the frame.
C15_Witness ==
  /\ settled = <<0, 1>>
  /\ ~isRotating
  /\ currentRowIndex = 2
  /\ rotationStartTime = time
  /\ rows = <<QuarterTurn, QuarterTurn, 0>>

\* C16 as stated: once a layer has settled at 90 degrees its angle is never
\* written with a smaller value, also when the layer is rotated again.
C16_SettledAngleNeverDecreases ==
  [][\A i \in 1..Len(rows) :
       rows[i] = QuarterTurn => rows'[i] >= QuarterTurn]_vars

\* C16, amended: angles are written as absolute values within 0..90 degrees.
\* A settled layer keeps exactly 90 degrees through the pauses and the
\* rotations of the other layers; the frame that starts its next rotation,
\* after every layer has been rotated, writes 0 to it.
C16_SettledAngleRestartsFromZero ==
  /\ [](\A i \in 1..Len(rows) : rows[i] >= 0 /\ rows[i] <= QuarterTurn)
  /\ [][\A i \in 1..Len(rows) :
          (rows[i] = QuarterTurn /\ rows'[i] # QuarterTurn) =>
            /\ i = currentRowIndex + 1
            /\ ~isRotating /\ isRotating'
            /\ rotationStartTime' = time'
            /\ rows'[i] = 0
            /\ Len(settled) >= gridSize]_vars

\* The first layer is rotated a second time and is below 90 degrees again.
C16_Witness ==
  /\ Len(settled) = gridSize
  /\ isRotating
  /\ currentRowIndex = 0
  /\ rows[1] < QuarterTurn
  /\ rows[2] = QuarterTurn /\ rows[3] = QuarterTurn

\* C17: while a drag is in progress a pointer move (a mouse move, a touch move
\* with one touch) left-multiplies onto the orientation the rotation with Euler
\* angles (dy * dragRotationSpeed, dx * dragRotationSpeed, 0), where (dx, dy) is
\* the pointer position minus the position stored by the previous start or
\* move of the drag, and then stores the pointer position; with no drag in
\* progress it changes neither the orientation nor the stored position.
C17_DragRotatesByPointerDelta ==
  /\ [][EventStep("mousedown") \/ (EventStep("touchstart") /\ Len(touches') = 1)
          => /\ isDragging'
             /\ orientation' = orientation
             /\ EventStep("touchstart") => previousMousePosition' = touches'[1]]_vars
  /\ [][EventStep("mousemove") \/ (EventStep("touchmove") /\ Len(touches') = 1) =>
          IF isDragging
            THEN LET dx == previousMousePosition'[1] - previousMousePosition[1]
                     dy == previousMousePosition'[2] - previousMousePosition[2]
                     delta == [op |-> "premultiply",
                               x |-> dy * dragRotationSpeed,
                               y |-> dx * dragRotationSpeed]
                 IN  /\ orientation' = IF dx = 0 /\ dy = 0
                                         THEN orientation
                                         ELSE orientation \o <<delta>>
                     /\ EventStep("touchmove") =>
                          previousMousePosition' = touches'[1]
                     /\ isDragging'
            ELSE /\ orientation' = orientation
                 /\ previousMousePosition' = previousMousePosition
                 /\ ~isDragging']_vars

\* A drag that started at (100, 100) has moved to (103, 104).
C17_Witness ==
  /\ lastOp = "mousemove"
  /\ isDragging
  /\ previousMousePosition = <<103, 104>>
  /\ Len(orientation) = 2
  /\ orientation[2] = [op |-> "premultiply", x |-> 40, y |-> 30]

\* C18: the current camera distance is within [minZoom, maxZoom] in every
\* reachable state: it starts equal to the target of setup, which is within
\* the bounds, and every frame moves it to a point between its old value and
\* the target.
C18_DistanceWithinBounds ==
  /\ [](/\ ~Less(currentZoom, Whole(minZoom))
        /\ ~Less(Whole(maxZoom), currentZoom))
  /\ [](lastOp = "setup" =>
          /\ currentZoom = targetZoom
          /\ Less(Whole(minZoom), targetZoom)
          /\ Less(targetZoom, Whole(maxZoom)))
  /\ [][FrameStep =>
          /\ ~Less(currentZoom', MinOf(currentZoom, targetZoom))
          /\ ~Less(MaxOf(currentZoom, targetZoom), currentZoom')]_vars

\* The target sits on the upper bound and the distance, four frames on, is
\* still on its way there.
C18_Witness ==
  /\ targetZoom = Whole(maxZoom)
  /\ idle.ticks >= 4
  /\ Less(CameraDistance, currentZoom)
  /\ Less(currentZoom, Whole(maxZoom))

\* C19: after teardown and a fresh setup of the same component instance the
\* scheduler cycles over the 3 layers of the grid built last: the layer list
\* holds 3 entries, the index stays below 3, and every layer whose angle a
\* frame changes is one of that grid.
C19_SchedulerOverCurrentGrid ==
  /\ [](Len(rows) = gridSize /\ currentRowIndex < gridSize)
  /\ [][FrameStep =>
          \A i \in 1..Len(rows) :
            rows'[i] # rows[i] => i > Len(rows) - gridSize]_vars

\* The loop of the first setup has settled the first layer of its grid; after
\* teardown and a fresh setup the loop of that setup turns the same entry of
\* the layer list, no layer of the grid it built.
C19_OldLayerTurned ==
  /\ Len(rows) = 2 * gridSize
  /\ settled = <<0>>
  /\ staleLoops = <<[isRotating |-> FALSE, currentRowIndex |-> 1,
                     rotationStartTime |-> 4250]>>
  /\ isRotating
  /\ currentRowIndex = 0
  /\ rows[1] < QuarterTurn
  /\ rows[gridSize + 1] = 0
====
